---- MODULE Spec2Model ----
(***************************************************************************)
(* create-lscs-next-app: the five scaffolding scripts of the repository,   *)
(* modelled as one state machine over a small filesystem.                  *)
(*                                                                         *)
(*   idxA      src/index.js lines 1-276    (readline, Turbopack)           *)
(*   inquirer  src/index.js lines 278-584  (inquirer prompts)              *)
(*   full      src/unnamed/part_002        (project + feature CLI)         *)
(*   plain     src/unnamed/part_003        (project only)                  *)
(*   toplevel  src/unnamed/part_004        (feature dispatch at top level) *)
(*                                                                         *)
(* Paths are sequences of segments relative to the working directory.      *)
(* A file's content is a sequence of text chunks: a rendered template is   *)
(* one chunk, a JSON document is its sequence of tokens.                   *)
(***************************************************************************)
EXTENDS Integers, Sequences, FiniteSets, TLC

VARIABLES
  variant,      \* which of the five scripts runs
  argv,         \* process.argv.slice(2)
  host,         \* what "node -v" and "npm -v" answer on this machine
  pc,           \* "running" or "exited"
  ip,           \* position in the script's sequence of steps
  dirs, files,  \* the filesystem below the working directory
  exitCode,     \* the process exit code once pc = "exited"
  projectName,  \* main()'s projectName
  log,          \* the steps executed so far, in order
  tree0,        \* the filesystem when the process started
  genPkg,       \* the package.json text the generator wrote
  answers,      \* the answers typed at the prompts, in order
  outcomes,     \* what the child processes and the rename delivered, in order
  earlier       \* what an earlier run with the same inputs did, <<>> if none

vars == <<variant, argv, host, pc, ip, dirs, files, exitCode, projectName,
          log, tree0, genPkg, answers, outcomes, earlier>>

(***************************************************************************)
(* Bounds of the model.                                                    *)
(***************************************************************************)
MaxReprompts == 2
MaxRuns == 2
MaxDepth == 4

(***************************************************************************)
(* JavaScript string primitives.                                           *)
(***************************************************************************)
CharAt(s, i) == SubSeq(s, i, i)

StartsWith(s, prefix) ==
  /\ Len(s) >= Len(prefix)
  /\ SubSeq(s, 1, Len(prefix)) = prefix

Includes(s, sub) ==
  \E i \in 1..(Len(s) - Len(sub) + 1) : SubSeq(s, i, i + Len(sub) - 1) = sub

RECURSIVE TrimStart(_)
TrimStart(s) ==
  IF Len(s) > 0 /\ CharAt(s, 1) = " " THEN TrimStart(Tail(s)) ELSE s

RECURSIVE TrimEnd(_)
TrimEnd(s) ==
  IF Len(s) > 0 /\ CharAt(s, Len(s)) = " "
  THEN TrimEnd(SubSeq(s, 1, Len(s) - 1)) ELSE s

Trim(s) == TrimEnd(TrimStart(s))

LowerChar(c) ==
  CASE c = "Y" -> "y"
    [] c = "E" -> "e"
    [] c = "S" -> "s"
    [] c = "N" -> "n"
    [] c = "O" -> "o"
    [] OTHER -> c

RECURSIVE ToLowerCase(_)
ToLowerCase(s) ==
  IF Len(s) = 0 THEN s ELSE LowerChar(CharAt(s, 1)) \o ToLowerCase(Tail(s))

\* s.replace(pat, "") : the first occurrence of pat is removed
RECURSIVE ReplaceFirst(_, _)
ReplaceFirst(s, pat) ==
  IF Len(s) < Len(pat) \/ Len(pat) = 0 THEN s
  ELSE IF StartsWith(s, pat) THEN SubSeq(s, Len(pat) + 1, Len(s))
  ELSE CharAt(s, 1) \o ReplaceFirst(Tail(s), pat)

\* s.split(sep) for a one-character separator
RECURSIVE SplitFrom(_, _, _)
SplitFrom(s, sep, cur) ==
  IF Len(s) = 0 THEN <<cur>>
  ELSE IF CharAt(s, 1) = sep THEN <<cur>> \o SplitFrom(Tail(s), sep, "")
  ELSE SplitFrom(Tail(s), sep, cur \o CharAt(s, 1))

Split(s, sep) == SplitFrom(s, sep, "")

Digits == <<"0", "1", "2", "3", "4", "5", "6", "7", "8", "9">>
IsDigit(c) == \E d \in 1..10 : Digits[d] = c
DigitVal(c) == (CHOOSE d \in 1..10 : Digits[d] = c) - 1

\* parseInt(s, 10): the longest leading run of digits, NaN when there is none
RECURSIVE ParseDigits(_, _)
ParseDigits(s, acc) ==
  IF Len(s) > 0 /\ IsDigit(CharAt(s, 1))
  THEN ParseDigits(Tail(s), 10 * acc + DigitVal(CharAt(s, 1)))
  ELSE acc

ParseInt(s) ==
  LET t == TrimStart(s)
  IN IF Len(t) > 0 /\ IsDigit(CharAt(t, 1))
     THEN [nan |-> FALSE, n |-> ParseDigits(t, 0)]
     ELSE [nan |-> TRUE, n |-> 0]

(***************************************************************************)
(* path.join: segments are split on "/", "." and "" are dropped and ".."   *)
(* removes the segment before it (a leading ".." is kept).                 *)
(***************************************************************************)
RECURSIVE NormalizeInto(_, _)
NormalizeInto(done, rest) ==
  IF Len(rest) = 0 THEN done
  ELSE LET s == Head(rest)
       IN IF s = "" \/ s = "." THEN NormalizeInto(done, Tail(rest))
          ELSE IF s = ".."
               THEN IF Len(done) > 0 /\ done[Len(done)] # ".."
                    THEN NormalizeInto(SubSeq(done, 1, Len(done) - 1), Tail(rest))
                    ELSE NormalizeInto(Append(done, ".."), Tail(rest))
          ELSE NormalizeInto(Append(done, s), Tail(rest))

Normalize(p) == NormalizeInto(<<>>, p)

\* path.join(base, name) where base is already a segment sequence
Join(base, name) == Normalize(base \o Split(name, "/"))

Parent(p) == SubSeq(p, 1, Len(p) - 1)
Prefixes(p) == {SubSeq(p, 1, k) : k \in 1..Len(p)}
IsUnder(p, root) ==
  /\ Len(p) >= Len(root)
  /\ SubSeq(p, 1, Len(root)) = root

(***************************************************************************)
(* The filesystem: t.dirs is the set of directories, t.files maps a path   *)
(* to its content, t.ok is FALSE once an fs call has thrown (later calls   *)
(* of the same step are then not executed).                                *)
(***************************************************************************)
IsDir(t, p) == p = <<>> \/ p \in t.dirs \/ (Len(p) > 0 /\ \A i \in 1..Len(p) : p[i] = "..")
IsFile(t, p) == p \in DOMAIN t.files
existsSync(t, p) == IsDir(t, p) \/ IsFile(t, p)

Throw(t) == [t EXCEPT !.ok = FALSE]

\* mutant: an existing directory is an error, as without { recursive: true }
mkdirRecursive_Strict(t, p) ==
  IF ~t.ok THEN t
  ELSE IF existsSync(t, p) \/ \E q \in Prefixes(p) : IsFile(t, q) THEN Throw(t)
  ELSE [t EXCEPT !.dirs = @ \cup {q \in Prefixes(p) : ~IsDir(t, q)}]

\* fs.mkdirSync(p, { recursive: true })
mkdirRecursive(t, p) ==
  IF ~t.ok THEN t
  ELSE IF \E q \in Prefixes(p) : IsFile(t, q) THEN Throw(t)
  ELSE [t EXCEPT !.dirs = @ \cup {q \in Prefixes(p) : ~IsDir(t, q)}]

\* fs.mkdirSync(p)
mkdirSync(t, p) ==
  IF ~t.ok THEN t
  ELSE IF existsSync(t, p) \/ ~IsDir(t, Parent(p)) THEN Throw(t)
  ELSE [t EXCEPT !.dirs = @ \cup {p}]

\* fs.writeFileSync(p, content) and fs.copyFileSync(bundledTemplate, p)
writeFileSync(t, p, content) ==
  IF ~t.ok THEN t
  ELSE IF Len(p) = 0 \/ IsDir(t, p) \/ ~IsDir(t, Parent(p)) THEN Throw(t)
  ELSE [t EXCEPT !.files =
          [q \in DOMAIN @ \cup {p} |-> IF q = p THEN content ELSE @[q]]]

\* fs.unlinkSync(p)
unlinkSync(t, p) ==
  IF ~t.ok THEN t
  ELSE IF ~IsFile(t, p) THEN Throw(t)
  ELSE [t EXCEPT !.files = [q \in DOMAIN @ \ {p} |-> @[q]]]

\* fs.copyFileSync(src, dest) between two paths of the tree
copyFileSync(t, src, dest) ==
  IF ~t.ok THEN t
  ELSE IF ~IsFile(t, src) THEN Throw(t)
  ELSE writeFileSync(t, dest, t.files[src])

\* fs.renameSync(src, dest) of a file; exdev: the rename is refused
renameSync(t, src, dest, exdev) ==
  IF ~t.ok THEN t
  ELSE IF exdev \/ ~IsFile(t, src) \/ IsDir(t, dest) \/ ~IsDir(t, Parent(dest))
       THEN Throw(t)
  ELSE [t EXCEPT !.files =
          [q \in (DOMAIN @ \ {src}) \cup {dest} |->
             IF q = dest THEN @[src] ELSE @[q]]]

\* mutant: the directory that holds p is emptied as well
rmSync_Parent(t, p) ==
  IF ~t.ok THEN t
  ELSE [t EXCEPT !.dirs = {d \in @ : ~IsUnder(d, Parent(p))},
                 !.files = [q \in {f \in DOMAIN @ : ~IsUnder(f, Parent(p))} |-> @[q]]]

\* fs.rmSync(p, { recursive: true, force: true })
rmSync(t, p) ==
  IF ~t.ok THEN t
  ELSE [t EXCEPT !.dirs = {d \in @ : ~IsUnder(d, p)},
                 !.files = [q \in {f \in DOMAIN @ : ~IsUnder(f, p)} |-> @[q]]]

RECURSIVE mkdirAll(_, _, _)
\* list.forEach((f) => fs.mkdirSync(path.join(base, f), { recursive: true }))
mkdirAll(t, base, list) ==
  IF Len(list) = 0 THEN t
  ELSE mkdirAll(mkdirRecursive(t, Join(base, Head(list))), base, Tail(list))

(***************************************************************************)
(* JSON.  A document on disk is a sequence of tokens: "{", "}", ":", ","   *)
(* and scalars.  A parsed value is [kind, str, obj]: a scalar (kind "str") *)
(* or an object (kind "obj") whose obj is the sequence of its members in   *)
(* insertion order, as JavaScript keeps them.                              *)
(***************************************************************************)
Punct == {"{", "}", ":", ","}
Str(s) == [kind |-> "str", str |-> s, obj |-> <<>>]
Obj(members) == [kind |-> "obj", str |-> "", obj |-> members]
NoResult == [ok |-> FALSE, val |-> Str(""), next |-> 0]

HasKey(o, k) == \E i \in 1..Len(o.obj) : o.obj[i].k = k
GetKey(o, k) == o.obj[CHOOSE i \in 1..Len(o.obj) : o.obj[i].k = k].v
Keys(o) == {o.obj[i].k : i \in 1..Len(o.obj)}

\* o[k] = v : an existing key keeps its position, a new key is appended
SetKey(o, k, v) ==
  IF HasKey(o, k)
  THEN Obj([i \in 1..Len(o.obj) |->
              IF o.obj[i].k = k THEN [k |-> k, v |-> v] ELSE o.obj[i]])
  ELSE Obj(Append(o.obj, [k |-> k, v |-> v]))

RECURSIVE ParseValue(_, _)
RECURSIVE ParseMembers(_, _, _)
ParseValue(t, i) ==
  IF i > Len(t) THEN NoResult
  ELSE IF t[i] = "{"
       THEN IF i + 1 <= Len(t) /\ t[i + 1] = "}"
            THEN [ok |-> TRUE, val |-> Obj(<<>>), next |-> i + 2]
            ELSE ParseMembers(t, i + 1, Obj(<<>>))
  ELSE IF t[i] \in Punct THEN NoResult
  ELSE [ok |-> TRUE, val |-> Str(t[i]), next |-> i + 1]

ParseMembers(t, i, acc) ==
  IF i + 2 > Len(t) \/ t[i] \in Punct \/ t[i + 1] # ":" THEN NoResult
  ELSE LET r == ParseValue(t, i + 2)
       IN IF ~r.ok \/ r.next > Len(t) THEN NoResult
          ELSE IF t[r.next] = ","
               THEN ParseMembers(t, r.next + 1, SetKey(acc, t[i], r.val))
          ELSE IF t[r.next] = "}"
               THEN [ok |-> TRUE, val |-> SetKey(acc, t[i], r.val),
                     next |-> r.next + 1]
          ELSE NoResult

\* JSON.parse(text): ok is FALSE where JSON.parse throws a SyntaxError
JSONparse(t) ==
  LET r == ParseValue(t, 1)
  IN IF r.ok /\ r.next = Len(t) + 1 THEN r ELSE NoResult

RECURSIVE JSONstringify(_)
RECURSIVE StringifyMembers(_, _)
\* JSON.stringify(value, null, 2); the indentation is not part of the tokens
JSONstringify(v) ==
  IF v.kind = "str" THEN <<v.str>>
  ELSE <<"{">> \o StringifyMembers(v.obj, 1) \o <<"}">>

StringifyMembers(ms, i) ==
  IF i > Len(ms) THEN <<>>
  ELSE <<ms[i].k, ":">> \o JSONstringify(ms[i].v)
       \o (IF i < Len(ms) THEN <<",">> ELSE <<>>)
       \o StringifyMembers(ms, i + 1)

\* the text of a literal { k: v, ... } whose values are scalars
RECURSIVE Entries(_)
Entries(kv) ==
  IF Len(kv) = 0 THEN <<>>
  ELSE <<kv[1][1], ":", kv[1][2]>>
       \o (IF Len(kv) > 1 THEN <<",">> ELSE <<>>)
       \o Entries(Tail(kv))

(***************************************************************************)
(* Templates.                                                              *)
(***************************************************************************)
\* mutant: the README tells whether the command has been run here before
featureReadme_Numbered(featureName) ==
  << "\n# Feature Module: " \o featureName,
     IF Cardinality({i \in 1..Len(log) : log[i].step = "NodeCheck"}) > 1
     THEN "again" ELSE "first" >>

\* templates/featureReadme.js
featureReadme(featureName) ==
  << "\n# Feature Module: " \o featureName
     \o "\n\nThis folder is a **template** for creating new features.\n"
     \o "To add a new feature:\n\n"
     \o "1. **Run** npx create-lscs-app feature <feature-name>\n"
     \o "2. Start implementing your feature logic, UI, and hooks inside this folder.\n"
     \o "\n---\n\n## Folder Structure\n\n---\n\n## Guidelines\n" >>

\* templates/readmeTemplate.js
readmeTemplate(name) ==
  << "\n# " \o name
     \o "\n\nThis project was bootstrapped with **create-lscs-next-app**\n"
     \o "\n---\n\nFollowing these conventions ensures your " \o name
     \o " project remains **scalable**, **maintainable**, and **collaborative**\n" >>

\* templates/packageJson.js: the literal ends after the devDependencies
\* object, the brace opened on its first line is never closed
packageJsonTemplate(name) ==
  <<"{", "name", ":", name, ",", "version", ":", "0.1.0", ",",
    "private", ":", "true", ",", "scripts", ":", "{">>
  \o Entries(<< <<"dev", "next dev --turbopack">>,
                <<"build", "next build">>,
                <<"start", "next start">>,
                <<"lint", "eslint . --ext .ts,.tsx,.js,.jsx">>,
                <<"format", "prettier --write .">>,
                <<"test", "vitest">> >>)
  \o <<"}", ",", "dependencies", ":", "{">>
  \o Entries(<< <<"next", "^15.5.3">>,
                <<"react", "^18.2.0">>,
                <<"react-dom", "^18.2.0">>,
                <<"tailwind-merge", "^3.3.1">>,
                <<"zustand", "^5.0.8">>,
                <<"@tanstack/react-query", "^5.87.4">>,
                <<"react-hook-form", "^7.62.0">>,
                <<"zod", "^4.1.8">>,
                <<"framer-motion", "^12.23.12">>,
                <<"react-icons", "^5.5.0">>,
                <<"drizzle-orm", "^0.25.0">> >>)
  \o <<"}", ",", "devDependencies", ":", "{">>
  \o Entries(<< <<"@types/node", "^20.19.14">>,
                <<"@types/react", "^18.2.14">>,
                <<"@types/react-dom", "^18.2.7">>,
                <<"eslint", "^9.35.0">>,
                <<"eslint-config-next", "^15.5.3">>,
                <<"prettier", "^3.6.2">>,
                <<"tailwindcss", "^4.1.13">>,
                <<"typescript", "^5.9.2">>,
                <<"vitest", "^3.2.4">>,
                <<"cypress", "^12.17.0">> >>)
  \o <<"}">>

(***************************************************************************)
(* The five scripts: the order of the steps of each.                       *)
(***************************************************************************)
Variants == {"idxA", "inquirer", "full", "plain", "toplevel"}

\* src/index.js, first script: main()
Program_idxA ==
  <<"NodeCheck", "FeatureCommand", "GetProjectName", "Generator", "AddLogo",
    "WritePackageJson", "Install", "PatchManifest", "BaseFolders",
    "PlaceholderFeature", "MoveGlobals", "CopyPages", "PrettierConfig",
    "WriteReadme", "Completion">>

\* src/index.js, second script: main()
Program_inquirer ==
  <<"FeatureCommand", "GetProjectName", "ConfirmOverwrite", "Generator",
    "Install", "PrettierConfig", "PatchManifest", "CopyPages", "BaseFolders",
    "PlaceholderFeature", "WriteReadme", "InstallTests", "VitestSetup",
    "GithubWorkflows", "Completion">>

\* src/unnamed/part_002: main()
Program_full ==
  <<"NodeCheck", "FeatureCommand", "GetProjectName", "Generator", "AddLogo",
    "WritePackageJson", "Install", "PatchManifest", "BaseFolders",
    "PlaceholderFeature", "MoveGlobals", "CopyPages", "PrettierConfig",
    "WriteReadme", "VitestSetup", "GithubWorkflows", "Completion">>

\* src/unnamed/part_003: main()
Program_plain ==
  <<"NodeCheck", "GetProjectName", "Generator", "Install", "BaseFolders",
    "PlaceholderFeature", "MoveGlobals", "PrettierConfig", "WriteReadme",
    "GithubWorkflows", "VitestSetup", "PatchManifest", "Completion">>

\* src/unnamed/part_004: the top-level dispatch, then main()
Program_toplevel ==
  <<"FeatureCommand", "NodeCheck", "GetProjectName", "Generator",
    "WritePackageJson", "BaseFolders", "PlaceholderFeature", "MoveGlobals",
    "CopyPages", "PrettierConfig", "WriteReadme", "GithubWorkflows",
    "VitestSetup", "PatchManifest", "Completion">>

Program ==
  CASE variant = "idxA" -> Program_idxA
    [] variant = "inquirer" -> Program_inquirer
    [] variant = "full" -> Program_full
    [] variant = "plain" -> Program_plain
    [] variant = "toplevel" -> Program_toplevel

(***************************************************************************)
(* Inputs of a run.                                                        *)
(***************************************************************************)
ArgvChoices ==
  { <<>>, <<"demo">>, <<"feature">>, <<"feature", "">>, <<"feature", "auth">>,
    <<"feature", "a/b">>, <<"feature", "../../out">>, <<"feature", "../..">>,
    <<"features">>, <<"feature-app">> }

NameAnswers == {"", "  ", "demo", " app "}
YesNoAnswers == {"y", "Y", "yes", "n", ""}

EmptyTree == [dirs |-> {}, files |-> <<>>, ok |-> TRUE]

\* an existing project with a scaffolded feature "auth" and a directory "demo"
ProjectTree ==
  [dirs |-> { <<"src">>, <<"src", "app">>, <<"src", "styles">>,
              <<"src", "features">>, <<"src", "features", "auth">>,
              <<"src", "features", "auth", "components">>,
              <<"src", "features", "auth", "containers">>,
              <<"src", "features", "auth", "hooks">>,
              <<"src", "features", "auth", "services">>,
              <<"src", "features", "auth", "queries">>,
              <<"src", "features", "auth", "types">>,
              <<"src", "features", "auth", "data">>,
              <<"demo">> },
   files |-> ( <<"package.json">> :> <<"{", "name", ":", "host", "}">>
            @@ <<"README.md">> :> <<"# host">>
            @@ <<"src", "styles", "globals.css">> :> <<"body {}">>
            @@ <<"src", "features", "auth", "README.md">> :> <<"my notes">>
            @@ <<"src", "features", "auth", "components", ".gitkeep">> :> <<"edited">>
            @@ <<"src", "features", "auth", "hooks", "useAuth.ts">> :> <<"export {}">>
            @@ <<"demo", "old.txt">> :> <<"old">> ),
   ok |-> TRUE]

\* a working directory in which "src" is a regular file
BlockedTree ==
  [dirs |-> {}, files |-> (<<"src">> :> <<"not a directory">>), ok |-> TRUE]

InitialTrees == {EmptyTree, ProjectTree, BlockedTree}

(***************************************************************************)
(* What the external generator (create-next-app) writes.                   *)
(***************************************************************************)
GenManifests(name) ==
  { <<"{", "name", ":", name, ",", "version", ":", "0.1.0", ",",
      "scripts", ":", "{", "dev", ":", "next dev", ",", "test", ":", "jest", ",",
      "lint", ":", "next lint", "}", ",",
      "dependencies", ":", "{", "next", ":", "15.0.0", "}", ",",
      "devDependencies", ":", "{", "typescript", ":", "^5", "}", "}">>,
    <<"{", "name", ":", name, ",", "private", ":", "true", ",",
      "dependencies", ":", "{", "next", ":", "15.0.0", "}", "}">>,
    <<"{", "name", ":", name, ",", "scripts", ":", "{", "dev", ":", "next dev">> }

Hosts ==
  { [node |-> "", npm |-> FALSE],
    [node |-> "v16.20.2", npm |-> TRUE],
    [node |-> "v18.17.0", npm |-> TRUE],
    [node |-> "v22.1.0", npm |-> FALSE] }

(***************************************************************************)
(* Control: a step either passes control to the next step or ends the      *)
(* process.                                                                *)
(***************************************************************************)
Tree == [dirs |-> dirs, files |-> files, ok |-> TRUE]
HasArg(i) == Len(argv) >= i
\* JavaScript truthiness of process.argv[i + 1]
Truthy(i) == HasArg(i) /\ argv[i] # ""
At(label) == pc = "running" /\ Program[ip] = label

Continue(label, t) ==
  /\ dirs' = t.dirs
  /\ files' = t.files
  /\ log' = Append(log, [step |-> label, ok |-> TRUE])
  /\ ip' = ip + 1
  /\ UNCHANGED <<pc, exitCode>>

processExit(label, t, code) ==
  /\ dirs' = t.dirs
  /\ files' = t.files
  /\ log' = Append(log, [step |-> label, ok |-> (code = 0)])
  /\ pc' = "exited"
  /\ exitCode' = code
  /\ UNCHANGED ip

\* mutant: on an exception the tree the process started on is restored
Settle_Rollback(label, t) ==
  IF t.ok THEN Continue(label, t) ELSE processExit(label, tree0, 1)

\* mutant: the exception is caught and the process ends with code 0
Settle_ExitZero(label, t) ==
  IF t.ok THEN Continue(label, t) ELSE processExit(label, t, 0)

\* main().catch: an exception thrown by a step ends the process with code 1
Settle(label, t) ==
  IF t.ok THEN Continue(label, t) ELSE processExit(label, t, 1)

(***************************************************************************)
(* Step 0: the runtime check.                                              *)
(***************************************************************************)
MinNodeMajor == 18

majorNode(nodeVersion) == ParseInt(Split(ReplaceFirst(nodeVersion, "v"), ".")[1])

\* execSync throws when the command is not found
CheckThrows ==
  \/ host.node = ""
  \/ variant \in {"plain", "toplevel"} /\ ~host.npm

NodeCheck ==
  /\ At("NodeCheck")
  /\ IF CheckThrows THEN processExit("NodeCheck", Tree, 1)
     ELSE LET m == majorNode(host.node)
          IN IF ~m.nan /\ m.n < MinNodeMajor
             THEN processExit("NodeCheck", Tree, 1)
             ELSE Continue("NodeCheck", Tree)
  /\ UNCHANGED <<variant, argv, host, projectName, tree0, genPkg, answers,
                 outcomes, earlier>>

(***************************************************************************)
(* Feature mode.                                                           *)
(***************************************************************************)
\* mutant: the last folder of the list is forgotten
featureFolders_NoData ==
  <<"components", "containers", "hooks", "services", "queries", "types">>

featureFolders ==
  <<"components", "containers", "hooks", "services", "queries", "types", "data">>

featureDirs ==
  <<"components", "containers", "hooks", "services", "queries", "types", "data">>

createFeature(t, featureName) ==
  LET featureBase == Join(<<"src", "features">>, featureName)
  IN writeFileSync(mkdirAll(t, featureBase, featureFolders),
                   Join(featureBase, "README.md"), featureReadme(featureName))

RECURSIVE mkdirKeepAll(_, _, _)
\* list.forEach: mkdirSync(dirPath, recursive), writeFileSync(dirPath/.gitkeep, '')
mkdirKeepAll(t, base, list) ==
  IF Len(list) = 0 THEN t
  ELSE LET dirPath == Join(base, Head(list))
       IN mkdirKeepAll(writeFileSync(mkdirRecursive(t, dirPath),
                                     Join(dirPath, ".gitkeep"), <<>>),
                       base, Tail(list))

\* the feature branch of the inquirer script's main()
featureMode(t, featureName) ==
  LET featurePath == Join(<<"src", "features">>, featureName)
  IN writeFileSync(mkdirKeepAll(t, featurePath, featureDirs),
                   Join(featurePath, "README.md"), featureReadme(featureName))

\* mutant: the missing name is reported but the script does not exit
missingFeatureName_Falls == Continue("FeatureCommand", Tree)

\* if (!featureNameArg) { console.error(...); process.exit(1) }
missingFeatureName == processExit("FeatureCommand", Tree, 1)

FeatureCommand ==
  /\ At("FeatureCommand")
  /\ IF HasArg(1) /\ argv[1] = "feature"
     THEN IF ~Truthy(2) THEN missingFeatureName
          ELSE LET t == IF variant = "inquirer"
                        THEN featureMode(Tree, argv[2])
                        ELSE createFeature(Tree, argv[2])
               IN processExit("FeatureCommand", t, IF t.ok THEN 0 ELSE 1)
     ELSE Continue("FeatureCommand", Tree)
  /\ UNCHANGED <<variant, argv, host, projectName, tree0, genPkg, answers,
                 outcomes, earlier>>

(***************************************************************************)
(* Project mode: the project name.                                         *)
(***************************************************************************)
\* mutant: the answer is resolved without trimming it
askQuestion_NoTrim(answer) == answer

\* readline: the answer is trimmed
askQuestion(answer) == Trim(answer)

\* whether the script takes the project name from process.argv[2]
NameFromArgv ==
  CASE variant \in {"idxA", "full"} ->
         Truthy(1) /\ ~StartsWith(argv[1], "feature")
    [] variant = "plain" -> Truthy(1)
    [] OTHER -> FALSE

\* inquirer: validate: (input) => input.trim() !== '' || '...'
validate(input) == Trim(input) # ""

GetProjectName ==
  /\ At("GetProjectName")
  /\ IF NameFromArgv
     THEN /\ projectName' = argv[1]
          /\ answers' = answers
          /\ Continue("GetProjectName", Tree)
     ELSE \E answer \in NameAnswers :
            /\ answers' = Append(answers, [q |-> "name", a |-> answer])
            /\ IF variant = "inquirer"
               THEN /\ validate(answer)
                    /\ projectName' = answer
                    /\ Continue("GetProjectName", Tree)
               ELSE LET name == askQuestion(answer)
                    IN IF name = ""
                       THEN /\ projectName' = projectName
                            /\ processExit("GetProjectName", Tree, 1)
                       ELSE /\ projectName' = name
                            /\ Continue("GetProjectName", Tree)
  /\ UNCHANGED <<variant, argv, host, tree0, genPkg,
                 outcomes, earlier>>

\* mutant: every script asks again after a rejected answer
Reprompt_AllScripts ==
  /\ At("GetProjectName")
  /\ \E answer \in NameAnswers :
       /\ ~validate(answer)
       /\ answers' = IF Len(answers) < MaxReprompts
                     THEN Append(answers, [q |-> "name", a |-> answer])
                     ELSE [answers EXCEPT ![Len(answers)] =
                             [q |-> "name", a |-> answer]]
  /\ UNCHANGED <<variant, argv, host, pc, ip, dirs, files, exitCode,
                 projectName, log, tree0, genPkg,
                 outcomes, earlier>>

\* inquirer: an answer that validate rejects is asked again, any number of
\* times; of the rejected answers the first MaxReprompts are kept, the last
\* of them standing for every later one
Reprompt ==
  /\ At("GetProjectName")
  /\ variant = "inquirer"
  /\ \E answer \in NameAnswers :
       /\ ~validate(answer)
       /\ answers' = IF Len(answers) < MaxReprompts
                     THEN Append(answers, [q |-> "name", a |-> answer])
                     ELSE [answers EXCEPT ![Len(answers)] =
                             [q |-> "name", a |-> answer]]
  /\ UNCHANGED <<variant, argv, host, pc, ip, dirs, files, exitCode,
                 projectName, log, tree0, genPkg,
                 outcomes, earlier>>

projectPath == Join(<<>>, projectName)
srcPath == Join(projectPath, "src")

\* mutant: every answer counts as a confirmation
confirm_AlwaysYes(input, default) == TRUE

\* inquirer, type 'confirm': empty input gives the default, else /^y(es)?/i
confirm(input, default) ==
  IF input = "" THEN default ELSE StartsWith(ToLowerCase(input), "y")

ConfirmOverwrite ==
  /\ At("ConfirmOverwrite")
  /\ IF existsSync(Tree, projectPath)
     THEN \E input \in YesNoAnswers :
            /\ answers' = Append(answers, [q |-> "overwrite", a |-> input])
            /\ IF ~confirm(input, FALSE)
               THEN processExit("ConfirmOverwrite", Tree, 0)
               ELSE Settle("ConfirmOverwrite", rmSync(Tree, projectPath))
     ELSE /\ answers' = answers
          /\ Continue("ConfirmOverwrite", Tree)
  /\ UNCHANGED <<variant, argv, host, projectName, tree0, genPkg,
                 outcomes, earlier>>

(***************************************************************************)
(* The external generator and the package installer.                       *)
(***************************************************************************)
\* npx create-next-app@latest <name> ... --app --src-dir
createNextApp(t, root, manifest, hasGlobals) ==
  LET t1 == mkdirRecursive(mkdirRecursive(t, Join(root, "src/app")),
                           Join(root, "public"))
      t2 == writeFileSync(t1, Join(root, "package.json"), manifest)
      t3 == writeFileSync(t2, Join(root, "src/app/layout.tsx"), <<"next:layout.tsx">>)
      t4 == writeFileSync(t3, Join(root, "src/app/page.tsx"), <<"next:page.tsx">>)
  IN IF hasGlobals
     THEN writeFileSync(t4, Join(root, "src/app/globals.css"), <<"next:globals.css">>)
     ELSE t4

\* mutant: the failure of the generator is caught and the script goes on
generatorFailed_GoesOn ==
  /\ log' = Append(log, [step |-> "Generator", ok |-> FALSE])
  /\ ip' = ip + 1
  /\ UNCHANGED <<dirs, files, pc, exitCode>>

\* execSync throws (or the catch block calls process.exit(1))
generatorFailed == processExit("Generator", Tree, 1)

Generator ==
  /\ At("Generator")
  /\ \E success \in BOOLEAN, hasGlobals \in BOOLEAN,
        manifest \in GenManifests(projectName) :
       IF success
       THEN /\ genPkg' = manifest
            /\ outcomes' = Append(outcomes,
                 [child |-> "create-next-app", ok |-> TRUE,
                  globals |-> hasGlobals, manifest |-> manifest])
            /\ Settle("Generator",
                      createNextApp(Tree, projectPath, manifest, hasGlobals))
       ELSE /\ genPkg' = genPkg
            /\ outcomes' = Append(outcomes,
                 [child |-> "create-next-app", ok |-> FALSE,
                  globals |-> FALSE, manifest |-> <<>>])
            /\ generatorFailed
  /\ UNCHANGED <<variant, argv, host, projectName, tree0, answers, earlier>>

\* the packages of the script's first "npm install --save-dev"
InstallPackages ==
  CASE variant = "idxA" -> <<"prettier">>
    [] variant = "inquirer" ->
         <<"prettier", "eslint-config-prettier", "eslint-plugin-prettier">>
    [] variant = "full" ->
         <<"prettier", "prettier-plugin-tailwindcss", "vitest", "jsdom",
           "@vitejs/plugin-react", "@testing-library/react",
           "@testing-library/jest-dom">>
    [] OTHER ->
         <<"prettier", "prettier-plugin-tailwindcss", "vitest",
           "@vitejs/plugin-react", "jsdom", "@testing-library/react",
           "@testing-library/jest-dom">>

\* the packages of the inquirer script's second "npm install -D"
TestPackages ==
  <<"vitest", "@testing-library/react", "@testing-library/jest-dom", "cypress">>

RECURSIVE AddAll(_, _)
AddAll(o, pkgs) ==
  IF Len(pkgs) = 0 THEN o
  ELSE AddAll(SetKey(o, Head(pkgs), Str("latest")), Tail(pkgs))

\* a successful npm install -D: node_modules appears and the packages are
\* recorded under devDependencies of a manifest npm can read
npmInstall(t, root, pkgs) ==
  LET p == Join(root, "package.json")
      r == IF IsFile(t, p) THEN JSONparse(t.files[p]) ELSE NoResult
      dev == IF r.ok /\ HasKey(r.val, "devDependencies")
             THEN GetKey(r.val, "devDependencies") ELSE Obj(<<>>)
      t1 == mkdirRecursive(t, Join(root, "node_modules"))
  IN IF r.ok
     THEN writeFileSync(t1, p,
            JSONstringify(SetKey(r.val, "devDependencies", AddAll(dev, pkgs))))
     ELSE t1

Install ==
  /\ At("Install")
  /\ \E success \in BOOLEAN :
       LET ok == success /\ IsDir(Tree, projectPath)
       IN /\ outcomes' = Append(outcomes,
               [child |-> "npm install", ok |-> ok, globals |-> FALSE,
                manifest |-> <<>>])
          /\ IF ok
             THEN Settle("Install", npmInstall(Tree, projectPath, InstallPackages))
             ELSE processExit("Install", Tree, 1)
  /\ UNCHANGED <<variant, argv, host, projectName, tree0, genPkg, answers,
                 earlier>>

InstallTests ==
  /\ At("InstallTests")
  /\ \E success \in BOOLEAN :
       LET ok == success /\ IsDir(Tree, projectPath)
       IN /\ outcomes' = Append(outcomes,
               [child |-> "npm install tests", ok |-> ok, globals |-> FALSE,
                manifest |-> <<>>])
          /\ IF ok
             THEN Settle("InstallTests", npmInstall(Tree, projectPath, TestPackages))
             ELSE processExit("InstallTests", Tree, 1)
  /\ UNCHANGED <<variant, argv, host, projectName, tree0, genPkg, answers,
                 earlier>>

(***************************************************************************)
(* Steps on the package manifest.                                          *)
(***************************************************************************)
pkgJsonPath == Join(projectPath, "package.json")

WritePackageJson ==
  /\ At("WritePackageJson")
  /\ Settle("WritePackageJson",
            writeFileSync(Tree, pkgJsonPath, packageJsonTemplate(projectName)))
  /\ UNCHANGED <<variant, argv, host, projectName, tree0, genPkg, answers,
                 outcomes, earlier>>

\* mutant: the scripts object is built anew, the existing entries are lost
scriptsOf_Fresh(pkg) == Obj(<<>>)

\* pkgJson.scripts || {}  and  { ...pkg.scripts }; in the manifests of the
\* model, scripts is either absent or an object
scriptsOf(pkg) ==
  IF HasKey(pkg, "scripts") /\ GetKey(pkg, "scripts").kind = "obj"
  THEN GetKey(pkg, "scripts") ELSE Obj(<<>>)

\* pkgJson.scripts.format = "prettier --write ."
patchFormat(pkg) ==
  SetKey(pkg, "scripts",
         SetKey(scriptsOf(pkg), "format", Str("prettier --write .")))

\* pkgJson.scripts.format = ...; pkgJson.scripts.test = "vitest"
patchFormatTest(pkg) ==
  SetKey(pkg, "scripts",
         SetKey(SetKey(scriptsOf(pkg), "format", Str("prettier --write .")),
                "test", Str("vitest")))

\* pkg.scripts = { ...pkg.scripts, test: 'vitest' }
patchTest(pkg) ==
  SetKey(pkg, "scripts", SetKey(scriptsOf(pkg), "test", Str("vitest")))

\* mutant: the manifest written back holds nothing but the scripts
patch_OnlyScripts(pkg) ==
  Obj(<< [k |-> "scripts",
          v |-> SetKey(SetKey(Obj(<<>>), "format", Str("prettier --write .")),
                       "test", Str("vitest"))] >>)

patch(pkg) ==
  CASE variant \in {"idxA", "inquirer"} -> patchFormat(pkg)
    [] variant = "full" -> patchFormatTest(pkg)
    [] OTHER -> patchTest(pkg)

\* the script entries the patch of this script sets
Targeted ==
  CASE variant \in {"idxA", "inquirer"} -> {"format"}
    [] variant = "full" -> {"format", "test"}
    [] OTHER -> {"test"}

\* mutant: the SyntaxError is caught and an empty manifest is patched instead
manifestParseFailure_Recovers ==
  Settle("PatchManifest",
         writeFileSync(Tree, pkgJsonPath, JSONstringify(patch(Obj(<<>>)))))

\* JSON.parse throws, main().catch ends the process
manifestParseFailure == processExit("PatchManifest", Tree, 1)

PatchManifest ==
  /\ At("PatchManifest")
  /\ IF ~IsFile(Tree, pkgJsonPath)
     THEN processExit("PatchManifest", Tree, 1)
     ELSE LET r == JSONparse(files[pkgJsonPath])
          IN IF ~r.ok
             THEN manifestParseFailure
             ELSE Settle("PatchManifest",
                         writeFileSync(Tree, pkgJsonPath,
                                       JSONstringify(patch(r.val))))
  /\ UNCHANGED <<variant, argv, host, projectName, tree0, genPkg, answers,
                 outcomes, earlier>>

(***************************************************************************)
(* Directory and template steps of project mode.                           *)
(***************************************************************************)
baseFolders ==
  <<"lib", "providers", "hooks", "types", "services", "components", "queries",
    "store", "config">>

\* the inquirer script's list of directories under src/
scaffoldDirs ==
  <<"app", "components", "config", "context", "features", "hooks", "lib",
    "providers", "queries", "services", "store", "styles", "types",
    "__tests__/unit", "__tests__/e2e">>

atomicFolders == <<"atoms", "molecules", "organisms">>

RECURSIVE mkdirAtomicAll(_, _, _)
\* inquirer: every directory gets a .gitkeep, "components" gets the three
\* atomic sub-folders (each with a .gitkeep) instead
mkdirAtomicAll(t, base, list) ==
  IF Len(list) = 0 THEN t
  ELSE LET dirPath == Join(base, Head(list))
           t1 == mkdirRecursive(t, dirPath)
           t2 == IF Head(list) = "components"
                 THEN mkdirKeepAll(t1, dirPath, atomicFolders)
                 ELSE writeFileSync(t1, Join(dirPath, ".gitkeep"), <<>>)
       IN mkdirAtomicAll(t2, base, Tail(list))

BaseFolders ==
  /\ At("BaseFolders")
  /\ Settle("BaseFolders",
            IF variant = "inquirer"
            THEN mkdirAtomicAll(Tree, srcPath, scaffoldDirs)
            ELSE mkdirAll(Tree, srcPath, baseFolders))
  /\ UNCHANGED <<variant, argv, host, projectName, tree0, genPkg, answers,
                 outcomes, earlier>>

\* mutant: the placeholder feature is made without its data folder
placeholderFeature_NoData(t) ==
  LET featureBase == Join(Join(srcPath, "features"), "[feature-name]")
  IN writeFileSync(mkdirAll(t, featureBase, featureFolders_NoData),
                   Join(featureBase, "README.md"),
                   featureReadme("[feature-name]"))

\* the placeholder feature of the readline scripts
placeholderFeature(t) ==
  LET featureBase == Join(Join(srcPath, "features"), "[feature-name]")
  IN writeFileSync(mkdirAll(t, featureBase, featureFolders),
                   Join(featureBase, "README.md"),
                   featureReadme("[feature-name]"))

\* the first scaffolded feature of the inquirer script
firstFeature(t) ==
  LET firstFeatureName == "example-feature"
      firstFeaturePath == Join(Join(srcPath, "features"), firstFeatureName)
  IN writeFileSync(mkdirAtomicAll(t, firstFeaturePath, featureDirs),
                   Join(firstFeaturePath, "README.md"),
                   featureReadme(firstFeatureName))

PlaceholderFeature ==
  /\ At("PlaceholderFeature")
  /\ Settle("PlaceholderFeature",
            IF variant = "inquirer" THEN firstFeature(Tree)
            ELSE placeholderFeature(Tree))
  /\ UNCHANGED <<variant, argv, host, projectName, tree0, genPkg, answers,
                 outcomes, earlier>>

stylesDir == Join(srcPath, "styles")
globalsSrc == Join(srcPath, "app/globals.css")
globalsDest == Join(stylesDir, "globals.css")

\* if (!fs.existsSync(stylesDir)) fs.mkdirSync(stylesDir)
ensureStylesDir(t) ==
  IF existsSync(t, stylesDir) THEN t ELSE mkdirSync(t, stylesDir)

\* mutant: the fallback copies the file and leaves the source in place
moveGlobals_NoUnlink(t, exdev) ==
  LET t1 == ensureStylesDir(t)
      renamed == renameSync(t1, globalsSrc, globalsDest, exdev)
  IN IF ~t1.ok \/ renamed.ok THEN renamed
     ELSE copyFileSync(t1, globalsSrc, globalsDest)

\* try { renameSync } catch { copyFileSync; unlinkSync }
moveGlobals(t, exdev) ==
  LET t1 == ensureStylesDir(t)
      renamed == renameSync(t1, globalsSrc, globalsDest, exdev)
  IN IF ~t1.ok \/ renamed.ok THEN renamed
     ELSE unlinkSync(copyFileSync(t1, globalsSrc, globalsDest), globalsSrc)

\* part_003: renameSync without a fallback
moveGlobalsPlain(t, exdev) ==
  renameSync(ensureStylesDir(t), globalsSrc, globalsDest, exdev)

MoveGlobals ==
  /\ At("MoveGlobals")
  /\ \E exdev \in BOOLEAN :
       /\ outcomes' = Append(outcomes,
            [child |-> "rename", ok |-> ~exdev, globals |-> FALSE,
             manifest |-> <<>>])
       /\ Settle("MoveGlobals",
                 IF variant = "plain" THEN moveGlobalsPlain(Tree, exdev)
                 ELSE moveGlobals(Tree, exdev))
  /\ UNCHANGED <<variant, argv, host, projectName, tree0, genPkg, answers,
                 earlier>>

appDir == Join(srcPath, "app")

\* if (!fs.existsSync(appDir)) fs.mkdirSync(appDir, { recursive: true })
ensureAppDir(t) ==
  IF existsSync(t, appDir) THEN t ELSE mkdirRecursive(t, appDir)

copyPages(t) ==
  CASE variant = "inquirer" ->
         writeFileSync(
           writeFileSync(
             writeFileSync(t, Join(projectPath, "src/app/layout.tsx"),
                           <<"templates/layout.tsx">>),
             Join(projectPath, "src/app/page.tsx"), <<"templates/page.tsx">>),
           Join(projectPath, "public/lscs-logo.png"), <<"templates/lscs-logo.png">>)
    [] variant = "toplevel" ->
         writeFileSync(ensureAppDir(t), Join(appDir, "page.tsx"),
                       <<"import React from \"react\";\nimport \"../styles/globals.css\";\n">>)
    [] OTHER ->
         writeFileSync(
           writeFileSync(ensureAppDir(t), Join(appDir, "page.tsx"),
                         <<"templates/page.tsx">>),
           Join(appDir, "layout.tsx"), <<"templates/layout.tsx">>)

CopyPages ==
  /\ At("CopyPages")
  /\ Settle("CopyPages", copyPages(Tree))
  /\ UNCHANGED <<variant, argv, host, projectName, tree0, genPkg, answers,
                 outcomes, earlier>>

\* Step 3b of the first script: the logo in public/
addLogo(t) ==
  LET publicDir == Join(projectPath, "public")
      t1 == IF existsSync(t, publicDir) THEN t ELSE mkdirRecursive(t, publicDir)
  IN writeFileSync(t1, Join(publicDir, "lscs-logo.png"), <<"templates/lscs-logo.png">>)

AddLogo ==
  /\ At("AddLogo")
  /\ Settle("AddLogo", addLogo(Tree))
  /\ UNCHANGED <<variant, argv, host, projectName, tree0, genPkg, answers,
                 outcomes, earlier>>

prettierConfig(t) ==
  IF variant = "inquirer"
  THEN writeFileSync(
         writeFileSync(t, Join(projectPath, ".prettierrc"),
                       JSONstringify(Obj(<< [k |-> "semi", v |-> Str("true")],
                                            [k |-> "singleQuote", v |-> Str("true")],
                                            [k |-> "tabWidth", v |-> Str("2")],
                                            [k |-> "trailingComma", v |-> Str("all")],
                                            [k |-> "printWidth", v |-> Str("80")] >>))),
         Join(projectPath, ".prettierignore"),
         <<"node_modules", "dist", ".next", "coverage">>)
  ELSE writeFileSync(
         writeFileSync(t, Join(projectPath, ".prettierrc"), <<"templates/.prettierrc">>),
         Join(projectPath, ".prettierignore"), <<"templates/.prettierignore">>)

PrettierConfig ==
  /\ At("PrettierConfig")
  /\ Settle("PrettierConfig", prettierConfig(Tree))
  /\ UNCHANGED <<variant, argv, host, projectName, tree0, genPkg, answers,
                 outcomes, earlier>>

WriteReadme ==
  /\ At("WriteReadme")
  /\ Settle("WriteReadme",
            writeFileSync(Tree, Join(projectPath, "README.md"),
                          readmeTemplate(projectName)))
  /\ UNCHANGED <<variant, argv, host, projectName, tree0, genPkg, answers,
                 outcomes, earlier>>

\* mutant: the setup file is copied but the two test folders are not made
testDirs_NoFolders(t) ==
  LET testDir == Join(projectPath, "test")
      t1 == IF existsSync(t, testDir) THEN t ELSE mkdirSync(t, testDir)
  IN writeFileSync(t1, Join(testDir, "setupTests.ts"),
                   <<"templates/setupTests.ts">>)

\* test/setupTests.ts and __tests__/unit, __tests__/e2e under the project
testDirs(t) ==
  LET testDir == Join(projectPath, "test")
      t1 == IF existsSync(t, testDir) THEN t ELSE mkdirSync(t, testDir)
      t2 == writeFileSync(t1, Join(testDir, "setupTests.ts"),
                          <<"templates/setupTests.ts">>)
  IN mkdirAll(t2, Join(projectPath, "__tests__"), <<"unit", "e2e">>)

vitestSetup(t) ==
  CASE variant = "full" -> testDirs(t)
    [] variant = "inquirer" ->
         LET t1 == writeFileSync(t, Join(projectPath, "vitest.config.ts"),
                                 <<"import { defineConfig } from \"vitest/config\";">>)
             t2 == writeFileSync(t1, Join(projectPath, "cypress.config.ts"),
                                 <<"import { defineConfig } from \"cypress\";">>)
             testDir == Join(projectPath, "src/tests")
         IN writeFileSync(mkdirRecursive(t2, testDir), Join(testDir, "setup.ts"),
                          <<"import \"@testing-library/jest-dom\";">>)
    [] OTHER ->
         testDirs(writeFileSync(t, Join(projectPath, "vitest.config.ts"),
                                <<"templates/vitest.config.ts">>))

VitestSetup ==
  /\ At("VitestSetup")
  /\ Settle("VitestSetup", vitestSetup(Tree))
  /\ UNCHANGED <<variant, argv, host, projectName, tree0, genPkg, answers,
                 outcomes, earlier>>

(***************************************************************************)
(* The optional copy of the bundled .github tree.                          *)
(***************************************************************************)
\* templates/.github as shipped with the tool
GithubTemplate ==
  [dirs |-> { <<".github">>, <<".github", "workflows">> },
   files |-> ( <<".github", "workflows", "ci.yml">> :> <<"templates/ci.yml">>
            @@ <<".github", "pull_request_template.md">> :> <<"templates/pr.md">> ),
   ok |-> TRUE]

\* mutant: only the regular files below src are listed
readdirSync_FilesOnly(s, src) ==
  {p[Len(src) + 1] : p \in {q \in DOMAIN s.files :
                             IsUnder(q, src) /\ Len(q) = Len(src) + 1}}

\* fs.readdirSync(src): the names directly below src
readdirSync(s, src) ==
  {p[Len(src) + 1] : p \in {q \in s.dirs \cup DOMAIN s.files :
                             IsUnder(q, src) /\ Len(q) > Len(src)}}

RECURSIVE copyRecursive(_, _, _, _)
RECURSIVE copyEntries(_, _, _, _, _)
\* copies the tree below src of s to dest of t
copyRecursive(s, src, t, dest) ==
  copyEntries(s, readdirSync(s, src), src,
              IF existsSync(t, dest) THEN t ELSE mkdirRecursive(t, dest), dest)

copyEntries(s, names, src, t, dest) ==
  IF names = {} THEN t
  ELSE LET file == CHOOSE n \in names : TRUE
           from == Append(src, file)
           to == Append(dest, file)
           t1 == IF from \in s.dirs THEN copyRecursive(s, from, t, to)
                 ELSE writeFileSync(t, to, s.files[from])
       IN copyEntries(s, names \ {file}, src, t1, dest)

addGithub(t) ==
  copyRecursive(GithubTemplate, <<".github">>, t, Join(projectPath, ".github"))

\* mutant: every answer that begins with y or Y is taken as a yes
wantsGithub_Prefix(answer) == StartsWith(ToLowerCase(Trim(answer)), "y")

\* whether the answer makes the script copy the workflows
wantsGithub(answer) ==
  IF variant = "inquirer" THEN confirm(answer, TRUE)
  ELSE ToLowerCase(askQuestion(answer)) = "y"

GithubWorkflows ==
  /\ At("GithubWorkflows")
  /\ \E answer \in YesNoAnswers :
       /\ answers' = Append(answers, [q |-> "github", a |-> answer])
       /\ Settle("GithubWorkflows",
                 IF wantsGithub(answer) THEN addGithub(Tree) ELSE Tree)
  /\ UNCHANGED <<variant, argv, host, projectName, tree0, genPkg,
                 outcomes, earlier>>

Completion ==
  /\ At("Completion")
  /\ processExit("Completion", Tree, 0)
  /\ UNCHANGED <<variant, argv, host, projectName, tree0, genPkg, answers,
                 outcomes, earlier>>

(***************************************************************************)
(* The state machine.                                                      *)
(***************************************************************************)
Init ==
  /\ variant \in Variants
  /\ argv \in ArgvChoices
  /\ host \in Hosts
  /\ tree0 \in InitialTrees
  /\ dirs = tree0.dirs
  /\ files = tree0.files
  /\ pc = "running"
  /\ ip = 1
  /\ exitCode = -1
  /\ projectName = ""
  /\ log = <<>>
  /\ genPkg = <<>>
  /\ answers = <<>>
  /\ outcomes = <<>>
  /\ earlier = <<>>

Next ==
  \/ NodeCheck
  \/ FeatureCommand
  \/ GetProjectName
  \/ Reprompt
  \/ ConfirmOverwrite
  \/ Generator
  \/ AddLogo
  \/ WritePackageJson
  \/ Install
  \/ InstallTests
  \/ PatchManifest
  \/ BaseFolders
  \/ PlaceholderFeature
  \/ MoveGlobals
  \/ CopyPages
  \/ PrettierConfig
  \/ WriteReadme
  \/ VitestSetup
  \/ GithubWorkflows
  \/ Completion

Spec == Init /\ [][Next]_vars

TypeOK ==
  /\ variant \in Variants
  /\ pc \in {"running", "exited"}
  /\ ip \in 1..Len(Program)
  /\ exitCode \in {-1, 0, 1}
  /\ (pc = "running") = (exitCode = -1)

(***************************************************************************)
(* Observations on a run.                                                  *)
(***************************************************************************)
Ran(label) == \E i \in 1..Len(log) : log[i].step = label
Failed(label) == \E i \in 1..Len(log) : log[i].step = label /\ ~log[i].ok
LastStep == IF Len(log) = 0 THEN "" ELSE log[Len(log)].step
Untouched == dirs = tree0.dirs /\ files = tree0.files
HasFeatureCommand == \E i \in 1..Len(Program) : Program[i] = "FeatureCommand"
FeatureMode == HasFeatureCommand /\ HasArg(1) /\ argv[1] = "feature"
NamePrompted == \E i \in 1..Len(answers) : answers[i].q = "name"
EmptyNameAnswer ==
  \E i \in 1..Len(answers) : answers[i].q = "name" /\ Trim(answers[i].a) = ""

RECURSIVE TextOf(_)
\* the text of a file: its chunks one after the other
TextOf(content) ==
  IF Len(content) = 0 THEN "" ELSE Head(content) \o TextOf(Tail(content))

(***************************************************************************)
(* C1: in the scripts that have the feature command, "feature" without a   *)
(* name leaves the filesystem as it was and the process ends with exit     *)
(* code 1.                                                                 *)
(***************************************************************************)
C1_MissingFeatureName ==
  (HasFeatureCommand /\ argv = <<"feature">>) =>
     /\ Untouched
     /\ ~Ran("Generator")
     /\ pc = "exited" => exitCode = 1

C1_Witness ==
  /\ argv = <<"feature">>
  /\ tree0 = ProjectTree
  /\ pc = "exited"
  /\ exitCode = 1
  /\ LastStep = "FeatureCommand"

(***************************************************************************)
(* C2: a feature run on a tree without src/features/<featureName> leaves   *)
(* under it the seven directories and a README.md that contains the name.  *)
(***************************************************************************)
featureRoot == Join(<<"src", "features">>, argv[2])
FeatureCreated ==
  /\ FeatureMode
  /\ Truthy(2)
  /\ pc = "exited"
  /\ exitCode = 0
  /\ ~existsSync(tree0, featureRoot)
SevenDirs == {Join(featureRoot, f) : f \in
                {"components", "containers", "hooks", "services", "queries",
                 "types", "data"}}
DirsUnderFeature == {d \in dirs : IsUnder(d, featureRoot) /\ d # featureRoot}
FilesUnderFeature == {f \in DOMAIN files : IsUnder(f, featureRoot)}
FeatureReadmeOk ==
  /\ Join(featureRoot, "README.md") \in DOMAIN files
  /\ Includes(TextOf(files[Join(featureRoot, "README.md")]), argv[2])
Markers == {Join(d, ".gitkeep") : d \in SevenDirs}

\* C2 as stated: the seven directories, README.md and nothing else
C2_Original ==
  FeatureCreated =>
     /\ DirsUnderFeature = SevenDirs
     /\ FilesUnderFeature = {Join(featureRoot, "README.md")}
     /\ FeatureReadmeOk

\* C2 as amended: a feature run that ends with exit code 0 on a tree without
\* src/features/<featureName> leaves under it exactly the seven directories,
\* one README.md containing the name and, in the script that writes marker
\* files, one empty .gitkeep in each of the seven directories
C2_Amended ==
  FeatureCreated =>
     /\ DirsUnderFeature = SevenDirs
     /\ FilesUnderFeature =
          {Join(featureRoot, "README.md")}
          \cup (IF variant = "inquirer" THEN Markers ELSE {})
     /\ \A m \in Markers \cap FilesUnderFeature : files[m] = <<>>
     /\ FeatureReadmeOk

C2_Witness ==
  /\ FeatureCreated
  /\ argv[2] = "a/b"
  /\ tree0 = ProjectTree
  /\ variant = "full"

(***************************************************************************)
(* C3: in project mode the name is the first argument whenever there is    *)
(* one other than "feature"; the prompt is used only without a first       *)
(* argument.  Stated for the scripts that read the name from process.argv  *)
(* at all (the other two always prompt).                                   *)
(***************************************************************************)
ReadsNameFromArgv == variant \in {"idxA", "full", "plain"}

C3_NameFromFirstArgument ==
  (ReadsNameFromArgv /\ HasArg(1) /\ argv[1] # "feature") =>
     /\ ~NamePrompted
     /\ Ran("GetProjectName") => projectName = argv[1]

UnsupportedRuntime ==
  \/ host.node = ""
  \/ LET m == majorNode(host.node) IN ~m.nan /\ m.n < MinNodeMajor

C5_RuntimeCheckedFirst ==
  UnsupportedRuntime =>
     /\ Untouched
     /\ ~Ran("Generator")
     /\ ~Ran("Install")
     /\ pc = "exited" => exitCode = 1

(***************************************************************************)
(* C6: a failing generator ends the run with exit code 1 and is the last   *)
(* step executed.                                                          *)
(***************************************************************************)
C6_GeneratorFailureIsFatal ==
  \A i \in 1..Len(log) :
     (log[i].step = "Generator" /\ ~log[i].ok) =>
        /\ i = Len(log)
        /\ pc = "exited"
        /\ exitCode = 1

C6_Witness ==
  /\ Failed("Generator")
  /\ pc = "exited"
  /\ variant = "idxA"
  /\ tree0 = ProjectTree

(***************************************************************************)
(* C7: after a successful project run every top-level key the generator    *)
(* wrote into package.json is still there with its value; the scripts keep *)
(* every entry but format and test, devDependencies keeps every entry (the *)
(* installer adds its packages there).                                     *)
(***************************************************************************)
ProjectSuccess == pc = "exited" /\ exitCode = 0 /\ LastStep = "Completion"
EntriesKept(old, new) ==
  \A k \in Keys(old) : HasKey(new, k) /\ GetKey(new, k) = GetKey(old, k)

PatchTop ==
  { <<>>,
    << [k |-> "name", v |-> Str("demo")] >>,
    << [k |-> "a", v |-> Str("1")], [k |-> "b", v |-> Obj(<< [k |-> "c", v |-> Str("2")] >>)] >>,
    << [k |-> "name", v |-> Str("demo")],
       [k |-> "dependencies", v |-> Obj(<< [k |-> "next", v |-> Str("15.0.0")] >>)],
       [k |-> "devDependencies", v |-> Obj(<<>>)] >> }

PatchScripts ==
  { <<>>,
    << [k |-> "x", v |-> Str("run x")] >>,
    << [k |-> "test", v |-> Str("jest")], [k |-> "x", v |-> Str("run x")] >>,
    << [k |-> "dev", v |-> Str("next dev")], [k |-> "format", v |-> Str("old")] >>,
    << [k |-> "format", v |-> Str("prettier --write .")],
       [k |-> "lint", v |-> Str("next lint")], [k |-> "test", v |-> Str("vitest")] >> }

PatchInputs ==
  {JSONstringify(Obj(top)) : top \in PatchTop}
  \cup {JSONstringify(Obj(<<[k |-> "scripts", v |-> Obj(sc)]>> \o top)) :
          top \in PatchTop, sc \in PatchScripts}
  \cup {JSONstringify(Obj(top \o <<[k |-> "scripts", v |-> Obj(sc)]>>)) :
          top \in PatchTop, sc \in PatchScripts}
  \cup { <<"{", "name", ":", "demo">>, <<"{", "scripts", ":", "{", "x", ":", "run x", "}">>,
         <<>>, <<"{", "name", "demo", "}">> }

InitPatch ==
  /\ variant \in Variants
  /\ argv = <<"demo">>
  /\ host = [node |-> "v18.17.0", npm |-> TRUE]
  /\ \E m \in PatchInputs :
       /\ tree0 = [dirs |-> {<<"demo">>},
                   files |-> (<<"demo", "package.json">> :> m), ok |-> TRUE]
       /\ genPkg = m
  /\ dirs = tree0.dirs
  /\ files = tree0.files
  /\ pc = "running"
  /\ ip = CHOOSE i \in 1..Len(Program) : Program[i] = "PatchManifest"
  /\ exitCode = -1
  /\ projectName = "demo"
  /\ log = <<>>
  /\ answers = <<>>
  /\ outcomes = <<>>
  /\ earlier = <<>>

SpecPatch == InitPatch /\ [][PatchManifest]_vars

Unparseable ==
  /\ At("PatchManifest")
  /\ IsFile(Tree, pkgJsonPath)
  /\ ~JSONparse(files[pkgJsonPath]).ok

C9_UnparseableIsFatal ==
  /\ [][Unparseable => /\ files' = files
                        /\ dirs' = dirs
                        /\ pc' = "exited"
                        /\ exitCode' = 1
                        /\ log' = Append(log, [step |-> "PatchManifest", ok |-> FALSE])]_vars
  /\ [](\A i \in 1..Len(log) :
          (log[i].step = "PatchManifest" /\ ~log[i].ok) =>
             i = Len(log) /\ pc = "exited" /\ exitCode = 1)

C9_Witness ==
  /\ LastStep = "PatchManifest"
  /\ Failed("PatchManifest")
  /\ pc = "exited"
  /\ exitCode = 1
  /\ IsFile(Tree, pkgJsonPath)
  /\ ~JSONparse(files[pkgJsonPath]).ok
  /\ variant = "plain"

(***************************************************************************)
(* C10: when src/app/globals.css is missing the relocation step does       *)
(* nothing, the run goes on and ends with exit code 0, and                 *)
(* src/styles/globals.css is absent.                                       *)
(***************************************************************************)
\* after the step, neither file exists exactly when the source was missing
SourceWasAbsent ==
  /\ Ran("MoveGlobals")
  /\ ~IsFile(Tree, globalsSrc)
  /\ ~IsFile(Tree, globalsDest)

C10_MissingSourceIsNoOp ==
  SourceWasAbsent =>
     /\ ~Failed("MoveGlobals")
     /\ pc = "exited" => exitCode = 0

(***************************************************************************)
(* The feature command invoked again with the same arguments in the same   *)
(* working directory: a new process starts on the tree the last one left.  *)
(***************************************************************************)
Runs == Cardinality({i \in 1..Len(log) : log[i].step = "FeatureCommand"})

Rerun ==
  /\ pc = "exited"
  /\ exitCode = 0
  /\ Runs < MaxRuns
  /\ pc' = "running"
  /\ ip' = 1
  /\ exitCode' = -1
  /\ UNCHANGED <<variant, argv, host, dirs, files, projectName, log, tree0,
                 genPkg, answers,
                 outcomes, earlier>>

InitTwice == Init /\ FeatureMode

NextTwice ==
  \/ NodeCheck
  \/ FeatureCommand
  \/ Rerun

SpecTwice == InitTwice /\ [][NextTwice]_vars

(***************************************************************************)
(* C11: a feature run that follows a successful feature run with the same  *)
(* name in the same working directory ends with exit code 0 and leaves the *)
(* set of directories as the first run left it.                            *)
(***************************************************************************)
C11_SecondRunSameDirs ==
  [][(At("FeatureCommand") /\ Runs >= 1) =>
        /\ pc' = "exited"
        /\ exitCode' = 0
        /\ dirs' = dirs]_vars

C11_Witness ==
  /\ Runs = 2
  /\ pc = "exited"
  /\ exitCode = 0
  /\ tree0 = EmptyTree
  /\ argv = <<"feature", "a/b">>

(***************************************************************************)
(* C12: a feature run on an already scaffolded feature leaves every file   *)
(* that was inside one of the seven sub-folders present with its content.  *)
(***************************************************************************)
UserFiles == {f \in DOMAIN tree0.files : \E d \in SevenDirs : IsUnder(f, d)}

C12_UserFilesKept ==
  (FeatureMode /\ Truthy(2) /\ Ran("FeatureCommand")) =>
     \A f \in UserFiles : f \in DOMAIN files /\ files[f] = tree0.files[f]

(***************************************************************************)
(* C13: a project run named "demo" in an empty working directory, in which *)
(* the generator succeeds (writing a manifest that parses and              *)
(* src/app/globals.css), the installer succeeds and the relocation is not  *)
(* refused, ends with exit code 0 and leaves the ten base directories, the *)
(* [feature-name] tree with its README, the relocated stylesheet and a     *)
(* root README.md that contains "demo".                                    *)
(***************************************************************************)
TenBaseDirs ==
  {"components", "features", "hooks", "lib", "providers", "queries",
   "services", "store", "styles", "types"}

placeholderRoot == Join(srcPath, "features/[feature-name]")

DemoLayout ==
  /\ \A d \in TenBaseDirs : Join(srcPath, d) \in dirs
  /\ \A i \in 1..Len(featureFolders) :
        Join(placeholderRoot, featureFolders[i]) \in dirs
  /\ IsFile(Tree, Join(placeholderRoot, "README.md"))
  /\ Includes(TextOf(files[Join(placeholderRoot, "README.md")]), "[feature-name]")
  /\ IsFile(Tree, globalsDest)
  /\ files[globalsDest] = <<"next:globals.css">>
  /\ ~IsFile(Tree, globalsSrc)
  /\ IsFile(Tree, Join(projectPath, "README.md"))
  /\ Includes(TextOf(files[Join(projectPath, "README.md")]), "demo")

DemoRun ==
  /\ projectName = "demo"
  /\ tree0 = EmptyTree
  /\ Ran("Generator")
  /\ ~Failed("Generator")
  /\ JSONparse(genPkg).ok
  /\ IsFile(Tree, globalsSrc) \/ IsFile(Tree, globalsDest)
  /\ ~Failed("Install")
  /\ ~Failed("InstallTests")
  /\ ~Failed("MoveGlobals")

C13_EndToEndDemo ==
  (DemoRun /\ pc = "exited") => (exitCode = 0 /\ DemoLayout)

(***************************************************************************)
(* C14: the answer at the workflow prompt and the copy of the .github tree.*)
(***************************************************************************)
GithubAnswered == \E i \in 1..Len(answers) : answers[i].q = "github"
GithubAnswer == answers[CHOOSE i \in 1..Len(answers) : answers[i].q = "github"].a
GithubCopied ==
  /\ IsFile(Tree, Join(projectPath, ".github/workflows/ci.yml"))
  /\ IsFile(Tree, Join(projectPath, ".github/pull_request_template.md"))
GithubAbsent == ~existsSync(Tree, Join(projectPath, ".github"))

\* C14 as stated: copied exactly on "y" or "yes" in any letter case, skipped
\* on every other answer and on no input, exit code 0 either way
C14_Original ==
  GithubAnswered =>
     /\ GithubCopied <=> ToLowerCase(GithubAnswer) \in {"y", "yes"}
     /\ ~GithubCopied => GithubAbsent
     /\ pc = "exited" => exitCode = 0

\* C14 as amended: the readline scripts copy the tree exactly when the trimmed
\* answer is "y" or "Y" ("yes" and no input skip); the inquirer prompt has the
\* default yes and copies exactly on no input or an answer beginning with y or
\* Y; the answer is never an error, the step after the prompt is executed,
\* and in the inquirer script, where only the completion follows, the run
\* ends with exit code 0
C14_Amended ==
  GithubAnswered =>
     /\ GithubCopied <=>
          IF variant = "inquirer"
          THEN GithubAnswer = "" \/ CharAt(GithubAnswer, 1) \in {"y", "Y"}
          ELSE Trim(GithubAnswer) \in {"y", "Y"}
     /\ ~GithubCopied => GithubAbsent
     /\ ~Failed("GithubWorkflows")
     /\ (variant = "inquirer" /\ pc = "exited") => exitCode = 0

C14_Witness ==
  /\ GithubAnswered
  /\ GithubAnswer = "yes"
  /\ variant = "plain"
  /\ GithubAbsent
  /\ pc = "exited"
  /\ exitCode = 0

(***************************************************************************)
(* C15: the exit code.                                                     *)
(***************************************************************************)
AnyFailure == \E i \in 1..Len(log) : ~log[i].ok
\* the steps executed are the first n steps of the script, all completed
CompletedThrough(n) ==
  /\ Len(log) = n
  /\ \A i \in 1..n : log[i].step = Program[i] /\ log[i].ok
FeatureStep == CHOOSE i \in 1..Len(Program) : Program[i] = "FeatureCommand"
OverwriteDeclined ==
  /\ variant = "inquirer"
  /\ LastStep = "ConfirmOverwrite"
  /\ Len(answers) > 0
  /\ answers[Len(answers)].q = "overwrite"
  /\ LET a == answers[Len(answers)].a
     IN a = "" \/ CharAt(a, 1) \notin {"y", "Y"}
\* the scripts and modes in which the version check is the first thing done
RuntimeChecked ==
  \/ variant \in {"idxA", "full", "plain"}
  \/ variant = "toplevel" /\ ~FeatureMode

TestDirsAt(base) ==
  /\ Join(base, "__tests__/unit") \in dirs
  /\ Join(base, "__tests__/e2e") \in dirs

GeneratorSucceeded ==
  \E i \in 1..Len(log) : log[i].step = "Generator" /\ log[i].ok
OverwriteConfirmed ==
  \E i \in 1..Len(answers) :
     /\ answers[i].q = "overwrite"
     /\ answers[i].a # ""
     /\ CharAt(answers[i].a, 1) \in {"y", "Y"}
\* the tree the process started on, without the folder named as the project
WithoutProjectFolder ==
  /\ dirs = {d \in tree0.dirs : ~IsUnder(d, projectPath)}
  /\ DOMAIN files = {f \in DOMAIN tree0.files : ~IsUnder(f, projectPath)}
  /\ \A f \in DOMAIN files : files[f] = tree0.files[f]

\* C17 as stated
C17_Original ==
  (~FeatureMode /\ ~GeneratorSucceeded) => Untouched

\* C17 as amended: in project mode, before the generator has exited
\* successfully no directory or file is created or modified, and the only
\* removal is, in the inquirer script, that of an existing folder with the
\* project's name once the user has confirmed to overwrite it
C17_Amended ==
  (~FeatureMode /\ ~GeneratorSucceeded) =>
     \/ Untouched
     \/ /\ variant = "inquirer"
        /\ OverwriteConfirmed
        /\ existsSync(tree0, projectPath)
        /\ WithoutProjectFolder

C17_Witness ==
  /\ variant = "inquirer"
  /\ ~GeneratorSucceeded
  /\ OverwriteConfirmed
  /\ LastStep = "ConfirmOverwrite"
  /\ ~Untouched
  /\ IsFile(Tree, <<"README.md">>)

(***************************************************************************)
(* C18: the text rendered by packageJsonTemplate parses as a manifest      *)
(* object, so the manifest patch step that follows the template write does *)
(* not fail.                                                               *)
(***************************************************************************)
TemplateWritten ==
  \E i \in 1..Len(log) : log[i].step = "WritePackageJson" /\ log[i].ok

C18_TemplateParses ==
  TemplateWritten =>
     /\ JSONparse(packageJsonTemplate(projectName)).ok
     /\ JSONparse(packageJsonTemplate(projectName)).val.kind = "obj"
     /\ ~Failed("PatchManifest")

(***************************************************************************)
(* The relocation step on its own: MoveGlobals applied, in each script     *)
(* that has the step, to a generated project with or without               *)
(* src/app/globals.css and with or without src/styles.                     *)
(***************************************************************************)
MoveNames == {"demo", "app"}
MoveSources == {<<>>, <<"next:globals.css">>, <<"body {}">>}
MoveStyles == {"absent", "empty", "occupied"}

MoveTree(name, source, styles) ==
  [dirs |-> { <<name>>, <<name, "src">>, <<name, "src", "app">> }
            \cup (IF styles = "absent" THEN {} ELSE { <<name, "src", "styles">> }),
   files |-> [p \in { <<name, "package.json">> }
                    \cup (IF source = <<>> THEN {}
                          ELSE { <<name, "src", "app", "globals.css">> })
                    \cup (IF styles = "occupied"
                          THEN { <<name, "src", "styles", "globals.css">> }
                          ELSE {}) |->
                IF p = <<name, "package.json">> THEN <<"{", "}">>
                ELSE IF p = <<name, "src", "app", "globals.css">> THEN source
                ELSE <<"old styles">>],
   ok |-> TRUE]

InitMove ==
  /\ variant \in Variants \ {"inquirer"}
  /\ projectName \in MoveNames
  /\ argv = <<projectName>>
  /\ host = [node |-> "v18.17.0", npm |-> TRUE]
  /\ \E source \in MoveSources, styles \in MoveStyles :
       tree0 = MoveTree(projectName, source, styles)
  /\ dirs = tree0.dirs
  /\ files = tree0.files
  /\ pc = "running"
  /\ ip = CHOOSE i \in 1..Len(Program) : Program[i] = "MoveGlobals"
  /\ exitCode = -1
  /\ log = <<>>
  /\ genPkg = <<"{", "}">>
  /\ answers = <<>>
  /\ outcomes = <<>>
  /\ earlier = <<>>

SpecMove == InitMove /\ [][MoveGlobals]_vars

(***************************************************************************)
(* C19: the relocation step when src/app/globals.css exists.               *)
(***************************************************************************)
Relocated ==
  /\ pc' = "running"
  /\ IsFile([dirs |-> dirs', files |-> files', ok |-> TRUE], globalsDest)
  /\ files'[globalsDest] = files[globalsSrc]
  /\ globalsSrc \notin DOMAIN files'

\* C19 as stated: whenever the source exists the step ends with the
\* destination holding its content and the source absent
C19_Original ==
  [][(At("MoveGlobals") /\ IsFile(Tree, globalsSrc)) => Relocated]_vars

\* C19 as amended: when the source exists, the scripts that have the
\* copy-then-delete fallback end the step with the destination holding the
\* source's content and the source absent whether or not the rename
\* succeeds; part_003 has no fallback: it does so when the rename succeeds,
\* and when the rename fails the run ends with exit code 1 with the source
\* still in place and the destination as it was
C19_Amended ==
  [][(At("MoveGlobals") /\ IsFile(Tree, globalsSrc)) =>
        \/ Relocated
        \/ /\ variant = "plain"
           /\ pc' = "exited"
           /\ exitCode' = 1
           /\ files' = files]_vars

C19_Witness ==
  /\ variant = "toplevel"
  /\ LastStep = "MoveGlobals"
  /\ pc = "running"
  /\ IsFile(tree0, globalsSrc)
  /\ IsFile(tree0, globalsDest)
  /\ ~IsFile(Tree, globalsSrc)
  /\ files[globalsDest] = <<"body {}">>

(***************************************************************************)
(* copyRecursive on its own: the inquirer script's copy applied to a       *)
(* bundled tree of bounded depth (kept under templates/.github of the same *)
(* filesystem) and to a project whose .github is absent, empty or already  *)
(* populated.                                                              *)
(***************************************************************************)
githubSrc == <<"templates", ".github">>
githubDest == Join(projectPath, ".github")

\* the file f.yml below d - 1 nested directories named n
DeepFile(d) == [i \in 1..d |-> IF i = d THEN "f.yml" ELSE "n"]
CopySources == SUBSET {DeepFile(d) : d \in 1..MaxDepth}
CopyDests == {"absent", "empty", "same name", "nested", "dir for file", "file for dir"}

DestFiles(cfg) ==
  CASE cfg = "same name" -> { <<"f.yml">>, <<"keep.md">> }
    [] cfg = "nested" -> { <<"n", "f.yml">>, <<"n", "other.yml">> }
    [] cfg = "dir for file" -> { <<"f.yml", "keep.md">> }
    [] cfg = "file for dir" -> { <<"n">> }
    [] OTHER -> {}

CopyTree(sources, cfg) ==
  LET from == {githubSrc \o r : r \in sources}
      to == {<<"demo", ".github">> \o r : r \in DestFiles(cfg)}
      all == from \cup to \cup { <<"demo", "package.json">> }
  IN [dirs |-> { <<"templates">>, githubSrc, <<"demo">> }
               \cup (IF cfg = "absent" THEN {} ELSE { <<"demo", ".github">> })
               \cup UNION {Prefixes(Parent(f)) : f \in all},
      files |-> [f \in all |->
                   IF f \in from THEN <<"bundled">> \o f
                   ELSE <<"old">>],
      ok |-> TRUE]

InitCopy ==
  /\ variant = "inquirer"
  /\ projectName = "demo"
  /\ argv = <<>>
  /\ host = [node |-> "v18.17.0", npm |-> TRUE]
  /\ \E sources \in CopySources, cfg \in CopyDests :
       tree0 = CopyTree(sources, cfg)
  /\ dirs = tree0.dirs
  /\ files = tree0.files
  /\ pc = "running"
  /\ ip = CHOOSE i \in 1..Len(Program) : Program[i] = "GithubWorkflows"
  /\ exitCode = -1
  /\ log = <<>>
  /\ genPkg = <<"{", "}">>
  /\ answers = <<[q |-> "name", a |-> "demo"], [q |-> "github", a |-> "y"]>>
  /\ outcomes = <<>>
  /\ earlier = <<>>

\* copyRecursive(githubSrc, githubDest)
CopyWorkflows ==
  /\ At("GithubWorkflows")
  /\ Settle("GithubWorkflows", copyRecursive(Tree, githubSrc, Tree, githubDest))
  /\ UNCHANGED <<variant, argv, host, projectName, tree0, genPkg, answers,
                 outcomes, earlier>>

SpecCopy == InitCopy /\ [][CopyWorkflows]_vars

(***************************************************************************)
(* C20: copyRecursive(src, dest) of the bundled tree into the project.     *)
(***************************************************************************)
Rel(p, root) == SubSeq(p, Len(root) + 1, Len(p))
SourceFiles == {f \in DOMAIN tree0.files : IsUnder(f, githubSrc)}
SourceDirs == {d \in tree0.dirs : IsUnder(d, githubSrc)}
Counterpart(p) == githubDest \o Rel(p, githubSrc)
\* a name that is a file on one side and a directory on the other
KindConflict ==
  \/ \E f \in SourceFiles : IsDir(tree0, Counterpart(f))
  \/ \E d \in SourceDirs : IsFile(tree0, Counterpart(d))

CopiedAll ==
  /\ ~Failed("GithubWorkflows")
  /\ \A f \in SourceFiles :
       /\ IsFile(Tree, Counterpart(f))
       /\ files[Counterpart(f)] = tree0.files[f]
  /\ \A d \in SourceDirs : Counterpart(d) \in dirs
  /\ \A g \in DOMAIN tree0.files :
       g \notin {Counterpart(f) : f \in SourceFiles} =>
          (IsFile(Tree, g) /\ files[g] = tree0.files[g])
  /\ DOMAIN files = DOMAIN tree0.files \cup {Counterpart(f) : f \in SourceFiles}
  /\ dirs = tree0.dirs \cup {Counterpart(d) : d \in SourceDirs}

\* C20 as stated: for every source tree and every destination the copy ends
\* with every file of the source at the same relative path of the
\* destination, the other files of the destination unchanged
C20_Original ==
  Ran("GithubWorkflows") => CopiedAll

\* C20 as amended: for a destination outside the source in which no name is
\* a directory where the source has a file, or a file where the source has
\* a directory, the copy ends without an exception and leaves every file
\* and directory of the source at the same relative path of the
\* destination, the files with the source's content, the other files of
\* the destination and the source unchanged; with such a name the copy
\* throws and the run ends with exit code 1
C20_Amended ==
  Ran("GithubWorkflows") =>
     IF KindConflict
     THEN Failed("GithubWorkflows") /\ pc = "exited" /\ exitCode = 1
     ELSE CopiedAll

C20_Witness ==
  /\ Ran("GithubWorkflows")
  /\ ~Failed("GithubWorkflows")
  /\ SourceFiles = {githubSrc \o DeepFile(d) : d \in 2..3}
  /\ IsFile(tree0, githubDest \o <<"n", "f.yml">>)
  /\ tree0.files[githubDest \o <<"n", "f.yml">>] = <<"old">>
  /\ files[githubDest \o <<"n", "f.yml">>] = <<"bundled">> \o githubSrc \o DeepFile(2)
  /\ files[githubDest \o <<"n", "other.yml">>] = <<"old">>
  /\ files[githubDest \o <<"n", "n", "f.yml">>] = <<"bundled">> \o githubSrc \o DeepFile(3)

(***************************************************************************)
(* C21: the step that ends a run with exit code 1 removes nothing and      *)
(* restores nothing: every directory and every file that was there when    *)
(* the step began is still there with its content when the process exits.  *)
(***************************************************************************)
C21_NoRollback ==
  [][(pc = "running" /\ pc' = "exited" /\ exitCode' = 1) =>
        /\ dirs \subseteq dirs'
        /\ DOMAIN files \subseteq DOMAIN files'
        /\ \A f \in DOMAIN files : files'[f] = files[f]]_vars

C21_Witness ==
  /\ pc = "exited"
  /\ exitCode = 1
  /\ variant = "toplevel"
  /\ Failed("MoveGlobals")
  /\ tree0 = EmptyTree
  /\ IsFile(Tree, Join(placeholderRoot, "README.md"))
  /\ Join(srcPath, "lib") \in dirs

(***************************************************************************)
(* C22: in the inquirer script an existing directory with the project's    *)
(* name is removed only after the user has confirmed; a negative answer or *)
(* the default ends the run with nothing changed and no generator; after a *)
(* confirmation the directory is gone when the generator is invoked.       *)
(***************************************************************************)
OverwriteRefused ==
  \E i \in 1..Len(answers) :
     /\ answers[i].q = "overwrite"
     /\ answers[i].a = "" \/ CharAt(answers[i].a, 1) \notin {"y", "Y"}

C22_OverwriteOnlyOnConfirmation ==
  /\ [](variant = "inquirer" =>
          /\ OverwriteRefused =>
                /\ pc = "exited"
                /\ exitCode = 0
                /\ Untouched
                /\ ~Ran("Generator")
          /\ (~FeatureMode /\ ~Untouched) => OverwriteConfirmed \/ GeneratorSucceeded
          /\ (Ran("GetProjectName") /\ existsSync(tree0, projectPath)
                /\ Ran("Generator")) => OverwriteConfirmed)
  /\ [][(variant = "inquirer" /\ At("ConfirmOverwrite")
           /\ existsSync(Tree, projectPath) /\ pc' = "running") =>
             /\ ~existsSync([dirs |-> dirs', files |-> files', ok |-> TRUE],
                            projectPath)
             /\ ~Ran("Generator")]_vars
  /\ [][(variant = "inquirer" /\ At("Generator")) =>
             ~existsSync(Tree, projectPath)]_vars

C22_Witness ==
  /\ variant = "inquirer"
  /\ tree0 = ProjectTree
  /\ projectName = "demo"
  /\ OverwriteConfirmed
  /\ GeneratorSucceeded
  /\ ~IsFile(Tree, <<"demo", "old.txt">>)

(***************************************************************************)
(* C23: whatever the feature name, every directory and file that a feature *)
(* run creates or writes lies under src/features/ (src and src/features    *)
(* themselves may be created on the way).                                  *)
(***************************************************************************)
featuresDir == <<"src", "features">>
CreatedDirs == dirs \ tree0.dirs
WrittenFiles ==
  {f \in DOMAIN files : f \notin DOMAIN tree0.files \/ files[f] # tree0.files[f]}

C23_FeatureStaysUnderFeatures ==
  (FeatureMode /\ Truthy(2)) =>
     /\ \A d \in CreatedDirs : IsUnder(d, featuresDir) \/ d \in Prefixes(featuresDir)
     /\ \A f \in WrittenFiles : IsUnder(f, featuresDir) /\ f # featuresDir

(***************************************************************************)
(* C24: a feature run invokes neither the generator nor the installer,     *)
(* asks nothing, and leaves package.json, the global stylesheet and the    *)
(* root README.md of the project as they were.                             *)
(***************************************************************************)
ProjectFiles ==
  { <<"package.json">>, <<"README.md">>, <<"src", "styles", "globals.css">>,
    <<"src", "app", "globals.css">> }
SameFile(f) == f \in DOMAIN files /\ files[f] = tree0.files[f]

C24_FeatureModeFrame ==
  FeatureMode =>
     /\ ~Ran("Generator")
     /\ ~Ran("Install")
     /\ ~Ran("InstallTests")
     /\ answers = <<>>
     /\ \A f \in ProjectFiles \cap DOMAIN tree0.files : SameFile(f)

(***************************************************************************)
(* C25: the layout below the root of a feature made by the feature command *)
(* against the layout below the feature that project scaffolding makes.    *)
(***************************************************************************)
LayoutOf(t, root) ==
  [dirs |-> {Rel(d, root) : d \in {x \in t.dirs : IsUnder(x, root) /\ x # root}},
   files |-> {Rel(f, root) : f \in {x \in DOMAIN t.files : IsUnder(x, root)}}]

\* the feature of project scaffolding, made in an empty directory
ScaffoldedFeature ==
  IF variant = "inquirer" THEN firstFeature(EmptyTree)
  ELSE placeholderFeature(EmptyTree)
ScaffoldedFeatureRoot ==
  Join(Join(srcPath, "features"),
       IF variant = "inquirer" THEN "example-feature" ELSE "[feature-name]")
AtomicDirs ==
  { <<"components", "atoms">>, <<"components", "molecules">>,
    <<"components", "organisms">> }

Procs == {1, 2}

MkdirOp(p) == [op |-> "mkdir", path |-> p, content |-> <<>>]
WriteOp(p, content) == [op |-> "write", path |-> p, content |-> content]

\* the fs calls of createFeature, and of the inquirer script's feature
\* branch, in the order in which they are made
featureOps(featureName) ==
  LET featureBase == Join(<<"src", "features">>, featureName)
      readme == WriteOp(Join(featureBase, "README.md"), featureReadme(featureName))
  IN IF variant = "inquirer"
     THEN [i \in 1..(2 * Len(featureDirs)) |->
             LET dirPath == Join(featureBase, featureDirs[(i + 1) \div 2])
             IN IF i % 2 = 1 THEN MkdirOp(dirPath)
                ELSE WriteOp(Join(dirPath, ".gitkeep"), <<>>)]
          \o <<readme>>
     ELSE [i \in 1..Len(featureFolders) |->
             MkdirOp(Join(featureBase, featureFolders[i]))]
          \o <<readme>>

\* mutant: the directories are made without { recursive: true }
applyOp_Exclusive(t, o) ==
  IF o.op = "mkdir"
  THEN mkdirSync(mkdirRecursive(t, Parent(o.path)), o.path)
  ELSE writeFileSync(t, o.path, o.content)

applyOp(t, o) ==
  IF o.op = "mkdir" THEN mkdirRecursive(t, o.path)
  ELSE writeFileSync(t, o.path, o.content)

FsCall(p) ==
  /\ pc[p] = "running"
  /\ LET ops == featureOps(argv[2])
         t == applyOp(Tree, ops[ip[p]])
     IN /\ dirs' = t.dirs
        /\ files' = t.files
        /\ IF ~t.ok
           THEN /\ pc' = [pc EXCEPT ![p] = "exited"]
                /\ exitCode' = [exitCode EXCEPT ![p] = 1]
                /\ ip' = ip
           ELSE IF ip[p] = Len(ops)
           THEN /\ pc' = [pc EXCEPT ![p] = "exited"]
                /\ exitCode' = [exitCode EXCEPT ![p] = 0]
                /\ ip' = ip
           ELSE /\ ip' = [ip EXCEPT ![p] = @ + 1]
                /\ UNCHANGED <<pc, exitCode>>
  /\ UNCHANGED <<variant, argv, host, projectName, log, tree0, genPkg, answers,
                 outcomes, earlier>>

FeatureNames == {"auth", "a/b", "../../out", "../.."}

InitConcurrent ==
  /\ variant \in Variants \ {"plain"}
  /\ argv \in {<<"feature", n>> : n \in FeatureNames}
  /\ host = [node |-> "v18.17.0", npm |-> TRUE]
  /\ tree0 \in InitialTrees
  /\ dirs = tree0.dirs
  /\ files = tree0.files
  /\ pc = [p \in Procs |-> "running"]
  /\ ip = [p \in Procs |-> 1]
  /\ exitCode = [p \in Procs |-> -1]
  /\ projectName = ""
  /\ log = <<>>
  /\ genPkg = <<>>
  /\ answers = <<>>
  /\ outcomes = <<>>
  /\ earlier = <<>>

NextConcurrent == \E p \in Procs : FsCall(p)

SpecConcurrent == InitConcurrent /\ [][NextConcurrent]_vars

(***************************************************************************)
(* C26: whenever a single feature command would succeed on the tree, two   *)
(* concurrent ones both end with exit code 0, whatever the interleaving of *)
(* their fs calls, and leave the tree that a single one leaves.            *)
(***************************************************************************)
SingleRun ==
  IF variant = "inquirer" THEN featureMode(tree0, argv[2])
  ELSE createFeature(tree0, argv[2])

C26_ConcurrentFeatureRuns ==
  SingleRun.ok =>
     /\ \A p \in Procs : exitCode[p] # 1
     /\ (\A p \in Procs : pc[p] = "exited") =>
           /\ \A p \in Procs : exitCode[p] = 0
           /\ dirs = SingleRun.dirs
           /\ files = SingleRun.files

C26_Witness ==
  /\ \A p \in Procs : pc[p] = "exited" /\ exitCode[p] = 0
  /\ variant = "inquirer"
  /\ argv[2] = "auth"
  /\ tree0 = ProjectTree
  /\ files[<<"src", "features", "auth", "components", ".gitkeep">>] = <<>>

(***************************************************************************)
(* Progress: the process is the only actor and every step is synchronous;  *)
(* a step that waits for a child process or for a prompt is taken once the *)
(* child has exited or the answer is in, which is assumed to happen.  Step *)
(* is what any step of a running process does to log and answers: the step *)
(* at ip is logged, or an answer is recorded, or both.  A running process  *)
(* can always take a step, so weak fairness of Step says that it does.     *)
(***************************************************************************)
Asked ==
  {[q |-> k, a |-> x] : k \in {"name", "overwrite", "github"},
                        x \in NameAnswers \cup YesNoAnswers}

Step ==
  /\ pc = "running"
  /\ log' \in {log} \cup {Append(log, [step |-> Program[ip], ok |-> b]) :
                            b \in BOOLEAN}
  /\ answers' \in {answers} \cup {Append(answers, x) : x \in Asked}
                    \cup {[answers EXCEPT ![Len(answers)] = x] : x \in Asked}

SpecLive == Spec /\ WF_<<log, answers>>(Step)

(***************************************************************************)
(* C27: termination of a run.                                              *)
(***************************************************************************)
Ended == pc = "exited" /\ exitCode \in {0, 1}
AtNamePrompt == variant = "inquirer" /\ At("GetProjectName")

IsPrefix(a, b) == Len(a) <= Len(b) /\ SubSeq(b, 1, Len(a)) = a

SameInputs ==
  Len(earlier) = 1 =>
    /\ IsPrefix(answers, earlier[1].answers)
    /\ IsPrefix(outcomes, earlier[1].outcomes)

Restart ==
  /\ pc = "exited"
  /\ Len(earlier) = 0
  /\ earlier' = <<[answers |-> answers, outcomes |-> outcomes, dirs |-> dirs,
                   files |-> files, exitCode |-> exitCode]>>
  /\ pc' = "running"
  /\ ip' = 1
  /\ exitCode' = -1
  /\ dirs' = tree0.dirs
  /\ files' = tree0.files
  /\ projectName' = ""
  /\ genPkg' = <<>>
  /\ answers' = <<>>
  /\ outcomes' = <<>>
  /\ UNCHANGED <<variant, argv, host, log, tree0>>

NextReplay ==
  \/ Next /\ SameInputs'
  \/ Restart

\* one host that passes the runtime check and one that fails it
InitReplay == Init /\ host.node \in {"v16.20.2", "v18.17.0"}

SpecReplay == InitReplay /\ [][NextReplay]_vars

====
